---- MODULE Spec2Model ----
(***************************************************************************)
(* Session lifecycle of the cloud-dev-env backend: one WebSocket           *)
(* connection (websocket/handler.ts) with its SandboxManager               *)
(* (sandbox/manager.ts), the storage descriptors (storage/r2.ts,           *)
(* storage/azure-blob.ts) and the configuration (config/env.ts).           *)
(*                                                                         *)
(* Every action is one run-to-completion segment of the single-threaded    *)
(* event loop: it starts at an event (a socket event, a timer, the return  *)
(* of an awaited remote call) and runs up to the next await of a remote    *)
(* call.  An await of an already settled promise only yields to the        *)
(* microtask queue and is not a point where another event is taken.        *)
(***************************************************************************)
EXTENDS Integers, Sequences, FiniteSets, Bags, TLC

\* ------------------------------------------------------------------ bounds
SandboxTimeout == 2   \* config.sandboxTimeout, in clock ticks
MaxMsgs == 2          \* inbound transport messages taken per connection
MaxInFlight == 2      \* cleanup() calls that await a remote call at the same time
MaxOut == 2           \* output chunks the pseudo-terminal emits per session

\* ------------------------------------------------------------ basic values
NULL == "null"
NoTimer == <<>>       \* this.cleanupTimer = null; a handle is <<id>>
Data == {"a"}
Geometries == {<<100, 40>>}
RunOutcomes == {"zero", "nonzero", "throw"}   \* commands.run: exit 0, exit # 0, rejected
IoOutcomes == {"ok", "throw"}                 \* any other awaited remote call

\* character strings, so that String.prototype.includes is computed
MOUNTED == <<"M", "O", "U", "N", "T", "E", "D">>
NOT_MOUNTED == <<"N", "O", "T", "_">> \o MOUNTED
NEWLINE == <<"\n">>

includes(s, sub) ==
    \E i \in 0 .. (Len(s) - Len(sub)) : SubSeq(s, i + 1, i + Len(sub)) = sub

\* stdout of `mountpoint -q MP && echo "MOUNTED" || echo "NOT_MOUNTED"`
VerifyStdout(isMountpoint) ==
    (IF isMountpoint THEN MOUNTED ELSE NOT_MOUNTED) \o NEWLINE

\* the test of manager.ts on the probe's result; TRUE = verification passes
VerifyPasses(exitCode, stdout) ==
    ~(exitCode # 0 \/ ~includes(stdout, MOUNTED))

\* ----------------------------------------------------------- configuration
Truthy(s) == s # ""

AuthModes == {"cli", "key", "sas"}

\* config/env.ts: getConditionalEnv gives '' when the condition is false and
\* refuses to load when the variable is required and missing, so a loaded
\* configuration has the account iff azure is enabled and the key iff key mode.
getConditionalEnv(value, condition) == IF condition THEN value ELSE ""

MkConfig(sid, cse, cst, aze, mode, r2, sas) ==
    [ e2bSandboxId        |-> sid,
      cloudStorageEnabled |-> cse,
      cloudStorageType    |-> cst,
      r2AccessKeyId       |-> r2[1],
      r2SecretAccessKey   |-> r2[2],
      r2Endpoint          |-> r2[3],
      r2Bucket            |-> r2[4],
      azureStorageEnabled |-> aze,
      azureAuthMode       |-> mode,
      azureStorageAccount |-> getConditionalEnv("acct", aze),
      azureStorageKey     |-> getConditionalEnv("k3y", aze /\ mode = "key"),
      azureStorageSas     |-> sas ]

R2Full == <<"id", "secret", "https://r2", "bucket">>
R2Unset == <<"", "", "", "">>
\* all four R2 variables set, or exactly one of them missing
R2Choices == {R2Full} \cup { [R2Full EXCEPT ![i] = ""] : i \in 1 .. 4 }

\* The configurations the model starts from: every combination of the
\* storage switches, with each field that the selected branch never reads
\* held at one value (its unset default).  AZURE_STORAGE_SAS is read by no
\* code path at all and stays unset.  Attaching to a given sandbox id instead
\* of creating one changes the first call only, and is tried with storage off.
ConfigSpace ==
    { MkConfig(sid, cse, cst, aze, mode, r2, "") :
        sid \in {"", "sbx-ext"}, cse \in BOOLEAN, cst \in {"r2", "azure"},
        aze \in BOOLEAN, mode \in AuthModes, r2 \in R2Choices \cup {R2Unset} }

Canonical(c) ==
    /\ (~c.cloudStorageEnabled => c.cloudStorageType = "r2")
    /\ (Truthy(c.e2bSandboxId) => ~c.cloudStorageEnabled /\ ~c.azureStorageEnabled)
    /\ LET r2 == <<c.r2AccessKeyId, c.r2SecretAccessKey, c.r2Endpoint, c.r2Bucket>>
       IN  IF c.cloudStorageEnabled /\ c.cloudStorageType = "r2"
           THEN r2 \in R2Choices ELSE r2 = R2Unset
    /\ LET azureMount == c.cloudStorageEnabled /\ c.cloudStorageType = "azure"
                         /\ c.azureStorageEnabled
       IN  ~azureMount => c.azureAuthMode = "cli"

Configs == { c \in ConfigSpace : Canonical(c) }

\* -------------------------------------------------- storage mount descriptors
R2MountCommands == <<"mkdir", "chmod", "s3fs">>   \* R2StorageManager.getMountCommands
R2UnmountCommand == "fusermount -u"               \* R2StorageManager.getUnmountCommand
AzureMountCommand == "blobfuse2 mount"            \* AzureBlobConfigManager.getMountCommand
AzureUnmountCommand == "fusermount3 -u"           \* AzureBlobConfigManager.getUnmountCommand

\* AzureBlobConfigManager.generateConfig: the azstorage section
generateConfig(c) ==
    [ account_name |-> c.azureStorageAccount,
      mode         |-> IF c.azureAuthMode = "cli" THEN "azcli" ELSE "key",
      account_key  |-> IF c.azureAuthMode = "key" THEN c.azureStorageKey ELSE "" ]

\* the check at the head of mountR2
R2Incomplete(c) ==
    ~Truthy(c.r2AccessKeyId) \/ ~Truthy(c.r2SecretAccessKey)
    \/ ~Truthy(c.r2Endpoint) \/ ~Truthy(c.r2Bucket)

\* ------------------------------------------------------------------- state
VARIABLES
    config,          \* the loaded configuration (config/env.ts)
    \* transport connection and relay (websocket/handler.ts)
    wsState,         \* ws.readyState: "NONE" before the connection exists
    sent,            \* notifications delivered to the client, in order
    listening,       \* the 'message' and 'close' listeners are registered
    registered,      \* connections.has(ws)
    sandboxProcess,  \* state.sandboxProcess
    hpc,             \* position of the connection handler
    shpc,            \* position of cleanupAllConnections
    msgs,            \* inbound messages taken so far
    \* SandboxManager fields and the closure of the returned SandboxProcess
    sandbox, ptyHandle, cleanupTimer, isMounted, sandboxRef, ptyPid,
    crpc,            \* position of create()
    caught,          \* the error create() caught: the step that threw it
    cpc,             \* position of each running cleanup() call, by its caller
    \* environment: event loop timers, the remote sandbox, the PTY watcher
    timers,          \* the scheduled, not yet fired timers: [id, left (ticks to go)]
    watcher,         \* the ptyHandle.wait() promise: "none", "armed", "due" (the
                     \* process was killed: it is about to settle), "fired"
    \* observation of the calls made and of what the callers saw
    \* a second connection of the same process, with its own SandboxManager
    peer,            \* [phase, sandbox, registered]: where its session is, the id of the
                     \* sandbox its manager holds (NULL for none)
    \* the browser client (lib/websocket.ts)
    client,          \* the WebSocketManager's fields, the sockets it created
                     \* and the reconnect timers the browser holds for it
    calls,           \* bag of the remote calls issued
    obs              \* record of observations (history only, never read by actions)

relayVars == <<wsState, sent, listening, registered, sandboxProcess, hpc, shpc, msgs>>
mgrVars == <<sandbox, ptyHandle, cleanupTimer, isMounted, sandboxRef, ptyPid>>
envVars == <<timers, watcher>>
vars == <<config, relayVars, mgrVars, crpc, caught, cpc, envVars, calls, obs, peer, client>>

\* the callers of cleanup(): create's catch, the 'close' listener (kill), the
\* shutdown operation (kill), the idle timer callback, the PTY watcher
Entrants == {"create", "close", "shutdown", "timer", "watcher"}

Msg(type, message) == [type |-> type, message |-> message]
StatusInit == Msg("status", <<"Initializing sandbox...">>)
\* a ready notification that the client cannot tell from a status line
ReadyAsStatus == Msg("status", <<>>)
Ready == Msg("ready", <<>>)
Output(data) == Msg("output", <<data>>)
StatusExit(code) == Msg("status", <<"Process exited with code ", ToString(code)>>)
ErrorMsg(cause) == Msg("error", <<"Failed to create sandbox: ", cause>>)

Issue(bag, call) == bag (+) SetToBag({call})
IssueAll(bag, callSet) == bag (+) SetToBag(callSet)
Count(call) == CopiesIn(call, calls)

\* ---- the browser client's WebSocketManager
MaxSockets == 6       \* WebSocket objects one manager creates, and reconnect
                      \* timers after which it still tries again
MaxDirect == 2        \* sockets and timers up to which connect() is also
                      \* called directly
InitialDelay == 1000  \* reconnectDelay = 1000 (ms)
DefaultMaxDelay == 30000

\* new WebSocketManager(config): maxDelay is config.maxReconnectDelay, <<>>
\* when the option is not given
NewManager(maxDelay) ==
    [ ws                |-> 0,           \* this.ws: 0 for null, or a socket
      reconnectDelay    |-> InitialDelay,
      reconnectTimeout  |-> NoTimer,
      shouldReconnect   |-> TRUE,
      state             |-> "disconnected",
      maxReconnectDelay |-> maxDelay,
      socks   |-> <<>>,    \* readyState of each WebSocket created, by number;
                           \* "FAILED": error fired, close event still to come
      rtimers |-> {},      \* pending window.setTimeout timers: [id, delay]
      rcount  |-> 0,       \* timers scheduled so far
      delays  |-> <<>> ]   \* delays scheduled since the last successful open

\* the server process after start-up, no connection made yet
InitServer ==
    /\ config \in Configs
    /\ wsState = "NONE" /\ sent = <<>> /\ listening = FALSE /\ registered = FALSE
    /\ sandboxProcess = NULL /\ hpc = "idle" /\ shpc = "idle" /\ msgs = 0
    /\ sandbox = NULL /\ ptyHandle = NULL /\ cleanupTimer = NoTimer
    /\ isMounted = FALSE /\ sandboxRef = NULL /\ ptyPid = 0
    /\ crpc = "none" /\ caught = NULL
    /\ peer = [phase |-> "none", sandbox |-> NULL, registered |-> FALSE]
    /\ cpc = [e \in Entrants |-> "idle"]
    /\ timers = {}
    /\ watcher = "none"
    /\ calls = EmptyBag
    /\ obs = [ idle     |-> 0,       \* while Ready: ticks since the last activity
                                     \* (arming or input), counted up to the timeout
               extended |-> FALSE,   \* an input arrived after time had passed
               mount    |-> "none",  \* what the mount operation reported
               probe    |-> "none",  \* what the verification probe just printed
               exits    |-> <<>>,    \* the codes onExit was invoked with
               produced |-> 0,       \* chunks the pseudo-terminal has emitted
               late     |-> FALSE ]  \* write() ran after a cleanup() had begun

\* ... and a browser client in which no session was started
Init == InitServer /\ client = NewManager(NoTimer)

\* ------------------------------------------------------------------ timers
\* The timer state a method leaves behind: the handle field and the
\* scheduled timers.
TimerState(handle, scheduled) == [cleanupTimer |-> handle, timers |-> scheduled]

\* a handle that names none of the scheduled timers
FreshTimerId(scheduled) ==
    CHOOSE i \in 1 .. (Cardinality(scheduled) + 1) :
        /\ \A tm \in scheduled : tm.id # i
        /\ \A j \in 1 .. (i - 1) : \E tm \in scheduled : tm.id = j

\* setTimeout(cb, config.sandboxTimeout * 1000): a new timer is scheduled and
\* its handle stored, whatever the previous handle was
startCleanupTimer(t) ==
    LET i == FreshTimerId(t.timers)
    IN  TimerState(<<i>>, t.timers \cup {[id |-> i, left |-> SandboxTimeout]})

\* clearTimeout: cancelling a fired or cancelled timer does nothing
clearTimeout(scheduled, handle) ==
    IF handle = NoTimer THEN scheduled
    ELSE { tm \in scheduled : tm.id # handle[1] }

\* a reset that schedules without cancelling
resetCleanupTimerNoClear(t) ==
    IF t.cleanupTimer # NoTimer THEN startCleanupTimer(t) ELSE t

\* a reset that leaves the running timer as it is
resetCleanupTimerNoRestart(t) == t

\* a reset that arms a timer whether or not one is armed
resetCleanupTimerAlways(t) ==
    startCleanupTimer(TimerState(t.cleanupTimer, clearTimeout(t.timers, t.cleanupTimer)))

\* resetCleanupTimer: clear and start again, only if a timer is armed
resetCleanupTimer(t) ==
    IF t.cleanupTimer # NoTimer
    THEN startCleanupTimer(
             TimerState(t.cleanupTimer, clearTimeout(t.timers, t.cleanupTimer)))
    ELSE t

\* ----------------------------------------------------------------- cleanup
\* cleanup() runs to its first pending remote call.  These give that call
\* (the position the cleanup() call waits at), from the fields as they are
\* when the segment runs.
CleanupAfterUnmount(sb) ==
    IF sb # NULL THEN "sbKill" ELSE "done"

\* a cleanup() that returns once the pseudo-terminal has been dealt with
CleanupAfterPtyAbort(sb, mounted) == "done"

CleanupAfterPty(sb, mounted) ==
    IF config.azureStorageEnabled /\ ~(sb = NULL \/ ~mounted)
    THEN "unmount"
    ELSE CleanupAfterUnmount(sb)

\* a cleanup() that leaves the pseudo-terminal alone
CleanupEntrySkipPty(sb, pty, mounted) == CleanupAfterPty(sb, mounted)

CleanupEntry(sb, pty, mounted) ==
    IF pty # NULL /\ sb # NULL THEN "ptyKill" ELSE CleanupAfterPty(sb, mounted)

\* the remote call issued on reaching a position of cleanup()
CleanupCall(p) ==
    CASE p = "ptyKill" -> {"pty.kill"}
      [] p = "unmount" -> {AzureUnmountCommand}
      [] p = "sbKill"  -> {"sandbox.kill"}
      [] OTHER         -> {}

\* observation at a step of cleanup(): the session is no longer Ready
DestroyObs(o, p, mounted) == [o EXCEPT !.idle = 0]

\* ------------------------------------------------------------------ create
\* the remote call create() issues on reaching each of its awaits
CreateCall(p) ==
    CASE p = "acquire" -> {IF Truthy(config.e2bSandboxId)
                           THEN "Sandbox.connect" ELSE "Sandbox.create"}
      [] p = "r2Write"   -> {"files.write .passwd-s3fs"}
      [] p = "r2Cmd1"    -> {R2MountCommands[1]}
      [] p = "r2Cmd2"    -> {R2MountCommands[2]}
      [] p = "r2Cmd3"    -> {R2MountCommands[3]}
      [] p = "azWhich"   -> {"which az"}
      [] p = "azAccount" -> {"az account show"}
      [] p = "azWrite"   -> {"files.write blobfuse2.yaml"}
      [] p = "azMount"   -> {AzureMountCommand}
      [] p = "azLogs"    -> {"files.read blobfuse2.log"}
      [] p = "azVerify"  -> {"mountpoint -q"}
      [] p = "bashrc"    -> {"files.write .bashrc"}
      [] p = "ptyCreate" -> {"pty.create"}
      [] OTHER           -> {}

\* the calls a mount operation makes against the sandbox
MountCommandCalls ==
    {R2MountCommands[1], R2MountCommands[2], R2MountCommands[3],
     "which az", "az account show", AzureMountCommand, "mountpoint -q"}
MountFileCalls == {"files.write .passwd-s3fs", "files.write blobfuse2.yaml"}

\* the first await of mountAzureBlob
AzureMountStart ==
    IF config.azureAuthMode = "cli" THEN "azWhich" ELSE "azWrite"

\* after the sandbox is acquired: the mount branch create() takes, "throw" when
\* mountR2 rejects the configuration before its first await
StorageStep ==
    IF config.cloudStorageEnabled
    THEN IF config.cloudStorageType = "r2"
         THEN IF R2Incomplete(config) THEN "throw" ELSE "r2Write"
         ELSE IF config.azureStorageEnabled
              THEN IF config.azureAuthMode = "cli" THEN "azCopy" ELSE AzureMountStart
              ELSE "bashrc"
    ELSE "bashrc"

\* a catch that notifies and neither closes nor discards the state
CreateRejectedNotifyOnly(error) ==
    /\ sent' = IF wsState = "OPEN" THEN Append(sent, ErrorMsg(error)) ELSE sent
    /\ hpc' = "failed"
    /\ crpc' = "rejected"
    /\ UNCHANGED <<wsState, registered, listening, sandboxProcess, shpc, msgs>>

\* handler.ts catch: error notification, ws.close(), connections.delete(ws)
CreateRejected(error) ==
    /\ sent' = IF wsState = "OPEN" THEN Append(sent, ErrorMsg(error)) ELSE sent
    /\ wsState' = IF wsState = "OPEN" THEN "CLOSING" ELSE wsState
    /\ registered' = FALSE
    /\ hpc' = "failed"
    /\ crpc' = "rejected"
    /\ UNCHANGED <<listening, sandboxProcess, shpc, msgs>>

\* create() goes on to its next await, at position p
CreateProceed(p, o) ==
    /\ crpc' = p
    /\ calls' = IssueAll(calls, CreateCall(p))
    /\ obs' = o
    /\ UNCHANGED <<cpc, cleanupTimer, timers, relayVars, caught>>

\* a catch that rethrows without cleaning up
CreateFailNoCleanup(sb, mounted, o) ==
    LET error == IF crpc = "acquire" /\ sb # NULL THEN "r2Config" ELSE crpc
    IN  /\ caught' = error
        /\ obs' = o
        /\ UNCHANGED <<cleanupTimer, timers, cpc, calls>>
        /\ CreateRejected(error)

\* create()'s catch: await this.cleanup(); throw error
CreateFail(sb, mounted, o) ==
    LET p == CleanupEntry(sb, ptyHandle, mounted)
        error == IF crpc = "acquire" /\ sb # NULL THEN "r2Config" ELSE crpc
    IN  /\ caught' = error
        /\ cleanupTimer' = NoTimer
        /\ timers' = clearTimeout(timers, cleanupTimer)
        /\ cpc' = [cpc EXCEPT !["create"] = p]
        /\ calls' = IssueAll(calls, CleanupCall(p))
        /\ obs' = DestroyObs(o, p, mounted)
        /\ IF p = "done" THEN CreateRejected(error)
           ELSE crpc' = "cleanup" /\ UNCHANGED relayVars

CreateGo(p, sb, mounted, o) ==
    IF p = "throw" THEN CreateFail(sb, mounted, o) ELSE CreateProceed(p, o)

createFrame == <<config, peer, client, ptyHandle, sandboxRef, ptyPid, watcher>>

\* wss.on('connection'): register the state, notify, call create()
OnConnection ==
    /\ hpc = "idle"
    /\ wsState' = "OPEN"
    /\ registered' = TRUE
    /\ sent' = Append(sent, StatusInit)
    /\ hpc' = "creating"
    /\ crpc' = "acquire"
    /\ calls' = IssueAll(calls, CreateCall("acquire"))
    /\ UNCHANGED <<config, peer, client, caught, listening, sandboxProcess, shpc, msgs, mgrVars,
                   cpc, envVars, obs>>

\* Sandbox.connect / Sandbox.create returns
AcquireReturn(out) ==
    /\ crpc = "acquire"
    /\ IF out = "ok"
       THEN /\ sandbox' = "sb"
            /\ CreateGo(StorageStep, "sb", isMounted,
                        IF StorageStep = "throw"
                        THEN [obs EXCEPT !.mount = "config"] ELSE obs)
       ELSE /\ UNCHANGED sandbox
            /\ CreateFail(sandbox, isMounted, obs)
    /\ UNCHANGED <<isMounted, createFrame>>

\* R2StorageManager.getMountPoint and AzureBlobConfigManager.getMountPoint
\* give the same directory
MountPoint == "/workspace/files"

\* create(): the directory the initialization script changes to
ScriptCwd(c) ==
    IF c.cloudStorageEnabled /\ c.cloudStorageType = "r2" THEN MountPoint
    ELSE IF c.azureStorageEnabled THEN MountPoint
    ELSE "/home/user"

\* create(): the line about storage in the welcome banner
StorageMessage(c) ==
    IF c.cloudStorageEnabled /\ c.cloudStorageType = "r2"
    THEN "Cloudflare R2 storage mounted at " \o MountPoint
    ELSE IF c.azureStorageEnabled
    THEN "Azure Blob Storage mounted at " \o MountPoint
    ELSE "Note: Cloud storage disabled - files will not persist"

\* create(): the cwd option given to sandbox.pty.create
PtyCwd(c) == IF c.azureStorageEnabled THEN MountPoint ELSE "/home/user"

\* What the Error thrown for a non-zero exit at step p interpolates into its
\* message: mountR2 `Command failed: ${cmd}\\nstderr: ${result.stderr}`,
\* mountAzureBlob `Failed to mount Azure Blob Storage. Exit code:
\* ${result.exitCode}. Logs: ${logs}`, the CLI pre-checks a fixed text and
\* 'Error: ' + azLoginCheck.stderr.
FailureMessageParts(p) ==
    CASE p \in {"r2Cmd1", "r2Cmd2", "r2Cmd3"} -> {"command", "stderr"}
      [] p = "azMount"   -> {"exitCode", "logs"}
      [] p = "azWhich"   -> {}
      [] p = "azAccount" -> {"stderr"}
      [] OTHER           -> {}

\* mountR2 after its configuration check: credentials file, then the commands
\* a mount plan that invokes the mount command first
MountR2NextMountFirst(p) ==
    CASE p = "r2Write" -> "r2Cmd3"
      [] p = "r2Cmd3"  -> "r2Cmd1"
      [] p = "r2Cmd1"  -> "r2Cmd2"
      [] p = "r2Cmd2"  -> "bashrc"

MountR2Next(p) ==
    CASE p = "r2Write" -> "r2Cmd1"
      [] p = "r2Cmd1"  -> "r2Cmd2"
      [] p = "r2Cmd2"  -> "r2Cmd3"
      [] p = "r2Cmd3"  -> "bashrc"

MountR2Step(out) ==
    /\ crpc \in {"r2Write", "r2Cmd1", "r2Cmd2", "r2Cmd3"}
    /\ (crpc = "r2Write" => out # "nonzero")
    /\ IF out = "zero"
       THEN /\ isMounted' = (crpc = "r2Cmd3" \/ isMounted)
            /\ CreateProceed(MountR2Next(crpc),
                             IF crpc = "r2Cmd3" THEN [obs EXCEPT !.mount = "ok"] ELSE obs)
       ELSE /\ UNCHANGED isMounted
            /\ CreateFail(sandbox, isMounted, [obs EXCEPT !.mount = "failed"])
    /\ UNCHANGED <<sandbox, createFrame>>

\* copyAzureCliCredentials: each of the six files is copied or skipped, never
\* fatal; whichever are copied, the manager goes on to mountAzureBlob

CopyAzureCliCredentials ==
    /\ crpc = "azCopy"
    /\ crpc' = AzureMountStart
    /\ calls' = IssueAll(calls, CreateCall(AzureMountStart))
    /\ UNCHANGED <<config, peer, client, caught, relayVars, mgrVars, cpc, envVars, obs>>

\* a mountAzureBlob that runs the CLI pre-checks and ignores their results
MountAzureNextUnchecked(p, out) ==
    CASE p = "azWhich"   -> "azAccount"
      [] p = "azAccount" -> "azWrite"
      [] p = "azWrite"   -> IF out = "zero" THEN "azMount" ELSE "throw"
      [] p = "azMount"   -> CASE out = "zero"    -> "azVerify"
                              [] out = "nonzero" -> "azLogs"
                              [] OTHER           -> "throw"
      [] p = "azLogs"    -> "throw"

\* mountAzureBlob: CLI pre-checks, config file, mount command, verification
MountAzureNext(p, out) ==
    CASE p = "azWhich"   -> IF out = "zero" THEN "azAccount" ELSE "throw"
      [] p = "azAccount" -> IF out = "zero" THEN "azWrite" ELSE "throw"
      [] p = "azWrite"   -> IF out = "zero" THEN "azMount" ELSE "throw"
      [] p = "azMount"   -> CASE out = "zero"    -> "azVerify"
                              [] out = "nonzero" -> "azLogs"
                              [] OTHER           -> "throw"
      [] p = "azLogs"    -> "throw"

MountAzureStep(out) ==
    /\ crpc \in {"azWhich", "azAccount", "azWrite", "azMount", "azLogs"}
    /\ (crpc \in {"azWrite", "azLogs"} => out # "nonzero")
    /\ CreateGo(MountAzureNext(crpc, out), sandbox, isMounted,
                IF MountAzureNext(crpc, out) = "throw"
                THEN [obs EXCEPT !.mount = "failed"] ELSE obs)
    /\ UNCHANGED <<sandbox, isMounted, createFrame>>

\* the verification probe returns; isMountpoint is what mountpoint -q found
MountAzureVerify(out, isMountpoint) ==
    /\ crpc = "azVerify"
    /\ LET code == IF out = "zero" THEN 0 ELSE 1
           seen == [obs EXCEPT !.probe = IF out = "throw" THEN "none"
                                         ELSE IF isMountpoint THEN "MOUNTED"
                                         ELSE "NOT_MOUNTED"]
       IN  IF out # "throw" /\ VerifyPasses(code, VerifyStdout(isMountpoint))
           THEN /\ isMounted' = TRUE
                /\ CreateProceed("bashrc", [seen EXCEPT !.mount = "ok"])
           ELSE /\ UNCHANGED isMounted
                /\ CreateFail(sandbox, isMounted,
                              [obs EXCEPT !.probe = "none", !.mount = "failed"])
    /\ UNCHANGED <<sandbox, createFrame>>

\* sandbox.files.write('/home/user/.bashrc', ...) returns
BashrcReturn(out) ==
    /\ crpc = "bashrc"
    /\ CreateGo(IF out = "ok" THEN "ptyCreate" ELSE "throw", sandbox, isMounted,
                [obs EXCEPT !.probe = "none"])
    /\ UNCHANGED <<sandbox, isMounted, createFrame>>

\* sandbox.pty.create returns.  On success create() arms the timer, registers
\* the watcher and resolves; the handler stores the process, sends "ready"
\* and registers its listeners.
PtyCreateReturn(out) ==
    /\ crpc = "ptyCreate"
    /\ IF out = "ok"
       THEN LET t == startCleanupTimer(TimerState(cleanupTimer, timers))
            IN  /\ ptyHandle' = "pty"
                /\ cleanupTimer' = t.cleanupTimer
                /\ timers' = t.timers
                /\ watcher' = "armed"
                /\ ptyPid' = 7
                /\ sandboxRef' = sandbox
                /\ crpc' = "resolved"
                /\ sandboxProcess' = "proc"
                /\ sent' = IF wsState = "OPEN" THEN Append(sent, Ready) ELSE sent
                /\ listening' = TRUE
                /\ hpc' = "ready"
                /\ obs' = [obs EXCEPT !.idle = 0]
                /\ UNCHANGED <<wsState, registered, shpc, msgs, cpc, calls, caught>>
       ELSE /\ CreateFail(sandbox, isMounted, obs)
            /\ UNCHANGED <<ptyHandle, watcher, ptyPid, sandboxRef>>
    /\ UNCHANGED <<config, peer, client, sandbox, isMounted>>

\* ------------------------------------------------------ cleanup() segments
InFlight == { e \in Entrants : cpc[e] \notin {"idle", "done"} }

\* a further trigger of teardown is taken while fewer than MaxInFlight
\* cleanup() calls are waiting for a remote call
MayEnter(e) == cpc[e] = "idle" /\ Cardinality(InFlight) < MaxInFlight

\* cleanup() is entered by caller e: cancel the timer, run to the first await
CleanupEnter(e, scheduled, o) ==
    LET p == CleanupEntry(sandbox, ptyHandle, isMounted)
    IN  /\ cleanupTimer' = NoTimer
        /\ timers' = clearTimeout(scheduled, cleanupTimer)
        /\ cpc' = [cpc EXCEPT ![e] = p]
        /\ calls' = IssueAll(calls, CleanupCall(p))
        /\ obs' = DestroyObs(o, p, isMounted)

\* what the caller of a finished cleanup() goes on to do
Resolve(e) ==
    CASE e = "create"   -> CreateRejected(caught)
      [] e = "close"    -> /\ registered' = FALSE
                           /\ UNCHANGED <<wsState, sent, listening, sandboxProcess,
                                          hpc, shpc, msgs, crpc>>
      [] e = "shutdown" -> /\ registered' = FALSE
                           /\ shpc' = "done"
                           /\ UNCHANGED <<wsState, sent, listening, sandboxProcess,
                                          hpc, msgs, crpc>>
      [] OTHER          -> UNCHANGED <<relayVars, crpc>>

CleanupGo(e, p, mounted, o) ==
    /\ cpc' = [cpc EXCEPT ![e] = p]
    /\ calls' = IssueAll(calls, CleanupCall(p))
    /\ obs' = DestroyObs(o, p, mounted)
    /\ IF p = "done" THEN Resolve(e) ELSE UNCHANGED <<relayVars, crpc>>

\* a kill that took effect ends the process under a pending wait()
Killed(w, out) == IF out = "ok" /\ w = "armed" THEN "due" ELSE w

\* connections.clear() at the end of cleanupAllConnections takes the second
\* connection out of the registry as well, whatever its manager holds
PeerSwept ==
    IF shpc # "done" /\ shpc' = "done"
    THEN [peer EXCEPT !.registered = FALSE]
    ELSE peer

\* sandbox.pty.kill settles (either way); this.ptyHandle = null
CleanupPtyKillReturn(e, out) ==
    /\ cpc[e] = "ptyKill"
    /\ ptyHandle' = NULL
    /\ watcher' = Killed(watcher, out)
    /\ CleanupGo(e, CleanupAfterPty(sandbox, isMounted), isMounted, obs)
    /\ peer' = PeerSwept
    /\ UNCHANGED <<config, client, caught, sandbox, cleanupTimer, isMounted, sandboxRef, ptyPid,
                   timers>>

\* the value of isMounted after the unmount command settled
UnmountMarks(mounted, out) ==
    IF out = "throw" THEN mounted ELSE FALSE

\* the unmount command settles
CleanupUnmountReturn(e, out) ==
    /\ cpc[e] = "unmount"
    /\ isMounted' = UnmountMarks(isMounted, out)
    /\ CleanupGo(e, CleanupAfterUnmount(sandbox), UnmountMarks(isMounted, out),
                 obs)
    /\ peer' = PeerSwept
    /\ UNCHANGED <<config, client, caught, sandbox, ptyHandle, cleanupTimer, sandboxRef, ptyPid,
                   envVars>>

\* a cleanup() that keeps its sandbox reference after sandbox.kill
CleanupSandboxKillReturnKeepsRef(e, out) ==
    /\ cpc[e] = "sbKill"
    /\ watcher' = Killed(watcher, out)
    /\ CleanupGo(e, "done", isMounted, obs)
    /\ peer' = PeerSwept
    /\ UNCHANGED <<config, client, caught, sandbox, ptyHandle, cleanupTimer, isMounted,
                   sandboxRef, ptyPid, timers>>

\* sandbox.kill settles (either way); this.sandbox = null
CleanupSandboxKillReturn(e, out) ==
    /\ cpc[e] = "sbKill"
    /\ sandbox' = NULL
    /\ watcher' = Killed(watcher, out)
    /\ CleanupGo(e, "done", isMounted, obs)
    /\ peer' = PeerSwept
    /\ UNCHANGED <<config, client, caught, ptyHandle, cleanupTimer, isMounted, sandboxRef, ptyPid,
                   timers>>

\* ----------------------------------------------------------- time, timer
Min(a, b) == IF a < b THEN a ELSE b

\* One tick of time passes: every scheduled timer has one tick less to go.
\* Time is measured only while a timer is scheduled; with none, nothing
\* depends on it.
Tick ==
    /\ timers # {}
    /\ timers' = { [tm EXCEPT !.left = IF @ > 0 THEN @ - 1 ELSE 0] : tm \in timers }
    /\ obs' = [obs EXCEPT !.idle = Min(@ + 1, SandboxTimeout)]
    /\ UNCHANGED <<config, peer, client, caught, relayVars, mgrVars, crpc, cpc, watcher, calls>>

\* a scheduled timer whose delay has elapsed runs its callback: this.cleanup()
TimerFire(tm) ==
    /\ tm \in timers
    /\ tm.left = 0
    /\ MayEnter("timer")
    /\ CleanupEnter("timer", timers \ {tm}, obs)
    /\ UNCHANGED <<config, peer, client, caught, relayVars, sandbox, ptyHandle, isMounted, sandboxRef,
                   ptyPid, crpc, watcher>>

\* ---------------------------------------------------------- PTY and watcher
ExitCodes == {0, 1}

\* an onExit callback that notifies twice
OnExitTwice(code) ==
    /\ sent' = IF wsState = "OPEN"
               THEN sent \o <<StatusExit(code), StatusExit(code)>> ELSE sent
    /\ wsState' = IF wsState = "OPEN" THEN "CLOSING" ELSE wsState
    /\ UNCHANGED <<listening, registered, sandboxProcess, hpc, shpc, msgs>>

\* handler.ts onExit callback
OnExit(code) ==
    /\ sent' = IF wsState = "OPEN" THEN Append(sent, StatusExit(code)) ELSE sent
    /\ wsState' = IF wsState = "OPEN" THEN "CLOSING" ELSE wsState
    /\ UNCHANGED <<listening, registered, sandboxProcess, hpc, shpc, msgs>>

\* ptyHandle.wait() resolved, the process having ended with exit code real:
\* onExit(this.ptyHandle?.exitCode ?? 0); this.cleanup()
WatcherThen(real) ==
    /\ watcher \in {"armed", "due"}
    /\ MayEnter("watcher")
    /\ watcher' = "fired"
    /\ LET code == IF ptyHandle # NULL THEN real ELSE 0
       IN  /\ OnExit(code)
           /\ CleanupEnter("watcher", timers,
                           [obs EXCEPT !.exits = Append(@, code)])
    /\ UNCHANGED <<config, peer, client, caught, sandbox, ptyHandle, isMounted, sandboxRef, ptyPid, crpc>>

\* ptyHandle.wait() rejected (non-zero exit, kill, or a failure of the stream
\* under the watcher): onExit(1); this.cleanup()
WatcherCatch ==
    /\ watcher \in {"armed", "due"}
    /\ MayEnter("watcher")
    /\ watcher' = "fired"
    /\ OnExit(1)
    /\ CleanupEnter("watcher", timers, [obs EXCEPT !.exits = Append(@, 1)])
    /\ UNCHANGED <<config, peer, client, caught, sandbox, ptyHandle, isMounted, sandboxRef, ptyPid, crpc>>

\* ------------------------------------------------------------- transport
KillCompleted == \E e \in Entrants : cpc[e] = "done"
TeardownStarted == \E e \in Entrants : cpc[e] # "idle"

\* The connection reaches CLOSED (the client went away, or the closing
\* handshake the server started has finished) and 'close' is emitted.  With
\* the listener registered: kill() if the registry has a process for the
\* connection, then connections.delete(ws).  Without it the event is lost.
WsClose ==
    /\ wsState \in {"OPEN", "CLOSING"}
    /\ wsState' = "CLOSED"
    /\ IF listening /\ registered /\ sandboxProcess # NULL
       THEN /\ MayEnter("close")
            /\ CleanupEnter("close", timers, obs)
            /\ registered' = (CleanupEntry(sandbox, ptyHandle, isMounted) # "done")
       ELSE /\ registered' = (registered /\ ~listening)
            /\ UNCHANGED <<cleanupTimer, timers, cpc, calls, obs>>
    /\ UNCHANGED <<config, peer, client, caught, sent, listening, sandboxProcess, hpc, shpc, msgs,
                   sandbox, ptyHandle, isMounted, sandboxRef, ptyPid, crpc,
                   watcher>>

\* a write that forwards its data twice
WriteTwice(data) ==
    /\ calls' = Issue(Issue(calls, "pty.sendInput " \o data), "pty.sendInput " \o data)
    /\ UNCHANGED <<cleanupTimer, timers, obs>>

\* SandboxProcess.write
Write(data) ==
    IF sandboxRef # NULL /\ ptyPid # 0
    THEN LET t == resetCleanupTimer(TimerState(cleanupTimer, timers))
         IN  /\ calls' = Issue(calls, "pty.sendInput " \o data)
             /\ cleanupTimer' = t.cleanupTimer
             /\ timers' = t.timers
             /\ obs' = [obs EXCEPT
                          !.extended = @ \/ (~TeardownStarted /\ obs.idle > 0),
                          !.idle = 0,
                          !.late = @ \/ TeardownStarted]
    ELSE UNCHANGED <<calls, cleanupTimer, timers, obs>>

\* sandboxRef.pty.resize(ptyPid, { cols, rows })
ResizeCall(cols, rows) == "pty.resize " \o ToString(cols) \o "x" \o ToString(rows)

\* a resize that passes rows for cols and cols for rows
ResizeSwapped(cols, rows) ==
    /\ calls' = IF sandboxRef # NULL /\ ptyPid # 0
                THEN Issue(calls, ResizeCall(rows, cols)) ELSE calls
    /\ UNCHANGED <<cleanupTimer, timers, obs>>

\* SandboxProcess.resize
Resize(cols, rows) ==
    /\ calls' = IF sandboxRef # NULL /\ ptyPid # 0
                THEN Issue(calls, ResizeCall(cols, rows)) ELSE calls
    /\ UNCHANGED <<cleanupTimer, timers, obs>>

\* ---- transport frames, described by what their text is
\* a frame whose text is a JSON object with the given members
ObjectFrame(members) == [text |-> "object", members |-> members]
InputFrame(data) == ObjectFrame([type |-> "input", data |-> data])
ResizeFrame(g) == ObjectFrame([type |-> "resize", cols |-> g[1], rows |-> g[2]])

\* frames that carry no operation: no text, white space only, text that is
\* not JSON ("ping"), JSON cut short, JSON that is not an object, and objects
\* with an unknown tag or without the fields of their tag
IgnoredFrames ==
    { [text |-> t] : t \in {"empty", "blank", "garbage", "truncated",
                            "null", "number", "string", "array"} }
    \cup { ObjectFrame(m) : m \in { [other |-> "x"], [type |-> "ping"],
                                    [type |-> "input"],
                                    [type |-> "resize", cols |-> 100] } }

\* !messageStr || messageStr.trim().length === 0
IsBlank(frame) == frame.text \in {"empty", "blank"}

\* JSON.parse(messageStr): the value, or the SyntaxError thrown
JSONparse(frame) ==
    CASE frame.text \in {"empty", "blank", "truncated"}
             -> [kind |-> "throw", message |-> "Unexpected end of JSON input"]
      [] frame.text = "garbage"
             -> [kind |-> "throw", message |-> "Unexpected token"]
      [] frame.text = "object"
             -> [kind |-> "object", members |-> frame.members]
      [] OTHER -> [kind |-> frame.text]

\* msg.name !== undefined, for a value that is not null (a primitive or an
\* array has no such property)
Has(value, name) == value.kind = "object" /\ name \in DOMAIN value.members

\* what the 'message' listener does with a frame whose parsing is not
\* inside a try: the exception leaves the listener
DispatchUnguarded(frame) ==
    IF IsBlank(frame) THEN "return"
    ELSE LET msg == JSONparse(frame)
         IN  CASE msg.kind \in {"throw", "null"} -> "escape"
               [] Has(msg, "type") /\ msg.members.type = "input" /\ Has(msg, "data")
                      -> "write"
               [] Has(msg, "type") /\ msg.members.type = "resize"
                  /\ Has(msg, "cols") /\ Has(msg, "rows")
                      -> "resize"
               [] OTHER -> "none"

\* what the 'message' listener does with a frame: "return" (blank), "catch"
\* (JSON.parse threw, or msg is null and reading msg.type threw: logged),
\* "write", "resize", or "none" (no branch taken)
Dispatch(frame) ==
    IF IsBlank(frame) THEN "return"
    ELSE LET msg == JSONparse(frame)
         IN  CASE msg.kind \in {"throw", "null"} -> "catch"
               [] Has(msg, "type") /\ msg.members.type = "input" /\ Has(msg, "data")
                      -> "write"
               [] Has(msg, "type") /\ msg.members.type = "resize"
                  /\ Has(msg, "cols") /\ Has(msg, "rows")
                      -> "resize"
               [] OTHER -> "none"

\* ws.on('message') (a frame arriving before the listener is registered has
\* no receiver and changes nothing).  An exception that left the async
\* listener would be an unhandled rejection, which ends the process.
OnMessage(frame) ==
    /\ wsState = "OPEN"
    /\ listening
    /\ msgs < MaxMsgs
    /\ msgs' = msgs + 1
    /\ LET d == Dispatch(frame)
       IN  /\ CASE d = "write" /\ sandboxProcess # NULL
                       -> Write(frame.members.data)
                [] d = "resize" /\ sandboxProcess # NULL
                       -> Resize(frame.members.cols, frame.members.rows)
                [] OTHER -> UNCHANGED <<calls, cleanupTimer, timers, obs>>
           /\ shpc' = IF d = "escape" THEN "exit1" ELSE shpc
    /\ UNCHANGED <<config, peer, client, caught, wsState, sent, listening, registered, sandboxProcess,
                   hpc, sandbox, ptyHandle, isMounted, sandboxRef, ptyPid, crpc,
                   cpc, watcher>>

\* a message tagged input
InputMessage(data) == OnMessage(InputFrame(data))

\* a message tagged resize
ResizeMessage(g) == OnMessage(ResizeFrame(g))

\* an empty, malformed or unknown message
IgnoredMessage(frame) == OnMessage(frame)

\* cleanupAllConnections (SIGTERM / SIGINT): kill() every process in the
\* registry, close every socket, await the kills, clear the registry
Shutdown ==
    /\ shpc = "idle"
    /\ wsState' = IF registered /\ wsState = "OPEN" THEN "CLOSING" ELSE wsState
    /\ IF registered /\ sandboxProcess # NULL
       THEN /\ MayEnter("shutdown")
            /\ CleanupEnter("shutdown", timers, obs)
            /\ IF CleanupEntry(sandbox, ptyHandle, isMounted) = "done"
               THEN registered' = FALSE /\ shpc' = "done"
               ELSE registered' = registered /\ shpc' = "waiting"
       ELSE /\ registered' = FALSE
            /\ shpc' = "done"
            /\ UNCHANGED <<cleanupTimer, timers, cpc, calls, obs>>
    /\ peer' = LET killed == IF peer.registered /\ peer.phase = "ready"
                           THEN [peer EXCEPT !.phase = "ended", !.sandbox = NULL]
                           ELSE peer
               IN  IF shpc' = "done" THEN [killed EXCEPT !.registered = FALSE]
                   ELSE killed
    /\ UNCHANGED <<config, client, caught, sent, listening, sandboxProcess, hpc, msgs,
                   sandbox, ptyHandle, isMounted, sandboxRef, ptyPid, crpc,
                   watcher>>

\* ------------------------------------------------------------ specification
Next ==
    \/ OnConnection
    \/ \E out \in IoOutcomes : AcquireReturn(out)
    \/ \E out \in RunOutcomes : MountR2Step(out)
    \/ CopyAzureCliCredentials
    \/ \E out \in RunOutcomes : MountAzureStep(out)
    \/ \E out \in RunOutcomes, isMountpoint \in BOOLEAN : MountAzureVerify(out, isMountpoint)
    \/ \E out \in IoOutcomes : BashrcReturn(out)
    \/ \E out \in IoOutcomes : PtyCreateReturn(out)
    \/ \E e \in Entrants, out \in IoOutcomes : CleanupPtyKillReturn(e, out)
    \/ \E e \in Entrants, out \in RunOutcomes : CleanupUnmountReturn(e, out)
    \/ \E e \in Entrants, out \in IoOutcomes : CleanupSandboxKillReturn(e, out)
    \/ Tick
    \/ \E tm \in timers : TimerFire(tm)
    \/ \E real \in ExitCodes : WatcherThen(real)
    \/ WatcherCatch
    \/ WsClose
    \/ \E data \in Data : InputMessage(data)
    \/ \E g \in Geometries : ResizeMessage(g)
    \/ Shutdown

Spec == Init /\ [][Next]_vars

\* --------------------------------------------------------------- progress
\* What the event loop and the remote side guarantee: an awaited remote call
\* settles, the closing handshake the server started completes, and wait()
\* settles once the process under it was killed.  A running shell need never
\* exit, a client need never disconnect or type, and no signal need arrive.
CreateReturns ==
    \/ \E out \in IoOutcomes : AcquireReturn(out)
    \/ \E out \in RunOutcomes : MountR2Step(out)
    \/ CopyAzureCliCredentials
    \/ \E out \in RunOutcomes : MountAzureStep(out)
    \/ \E out \in RunOutcomes, isMountpoint \in BOOLEAN : MountAzureVerify(out, isMountpoint)
    \/ \E out \in IoOutcomes : BashrcReturn(out)
    \/ \E out \in IoOutcomes : PtyCreateReturn(out)

CleanupReturns(e) ==
    \/ \E out \in IoOutcomes : CleanupPtyKillReturn(e, out)
    \/ \E out \in RunOutcomes : CleanupUnmountReturn(e, out)
    \/ \E out \in IoOutcomes : CleanupSandboxKillReturn(e, out)

WatcherSettles == (\E real \in ExitCodes : WatcherThen(real)) \/ WatcherCatch

Fairness ==
    /\ WF_vars(CreateReturns)
    /\ \A e \in Entrants : WF_vars(CleanupReturns(e))
    /\ WF_vars(wsState = "CLOSING" /\ WsClose)
    /\ WF_vars(watcher = "due" /\ WatcherSettles)

FairSpec == Spec /\ Fairness

\* ------------------------------------------------------- process shutdown
\* index.ts shutdown: await cleanupAllConnections(); then server.close(cb)
\* with cb = process.exit(0), and setTimeout(process.exit(1), 10000).  Both
\* are set up only when cleanupAllConnections has returned (shpc = "done").
Exited == shpc \in {"exit0", "exit1"}

\* the HTTP server has closed, every connection being gone: process.exit(0)
ServerClosed ==
    /\ shpc = "done"
    /\ wsState \in {"NONE", "CLOSED"}
    /\ shpc' = "exit0"
    /\ UNCHANGED <<config, peer, client, caught, wsState, sent, listening, registered,
                   sandboxProcess, hpc, msgs, mgrVars, crpc, cpc, envVars, calls, obs>>

\* the grace period has run out: process.exit(1)
ForceExit ==
    /\ shpc = "done"
    /\ shpc' = "exit1"
    /\ UNCHANGED <<config, peer, client, caught, wsState, sent, listening, registered,
                   sandboxProcess, hpc, msgs, mgrVars, crpc, cpc, envVars, calls, obs>>

\* The process from start to exit: the session steps while it lives, with a
\* shutdown signal at any time, and the two exits.  Of the event loop only
\* its timers are relied on: a remote call may never settle.
NextProcess ==
    \/ ~Exited /\ Next
    \/ ServerClosed
    \/ ForceExit


\* ------------------------------------------------- relay with PTY output
\* The pseudo-terminal emits a chunk: the onData callback given to pty.create
\* calls onOutput, which sends it while the socket is open (and does nothing
\* otherwise).  The callback runs from the handle's event loop, which exists
\* from the resolution of pty.create until wait() settles.
OutputCount == Cardinality({ i \in 1 .. Len(sent) : sent[i].type = "output" })

\* the k-th chunk the pseudo-terminal emits, decoded to text
ChunkText(data, k) == data \o ToString(k)

\* an output sink that does not look at the socket's state
PtyOutputUnguarded(data) ==
    /\ watcher \in {"armed", "due"}
    /\ obs.produced < MaxOut
    /\ obs' = [obs EXCEPT !.produced = @ + 1]
    /\ sent' = Append(sent, Output(ChunkText(data, obs.produced + 1)))
    /\ UNCHANGED <<config, peer, client, caught, wsState, listening, registered, sandboxProcess, hpc,
                   shpc, msgs, mgrVars, crpc, cpc, envVars, calls>>

PtyOutput(data) ==
    /\ watcher \in {"armed", "due"}
    /\ obs.produced < MaxOut
    /\ obs' = [obs EXCEPT !.produced = @ + 1]
    /\ sent' = IF wsState = "OPEN"
               THEN Append(sent, Output(ChunkText(data, obs.produced + 1)))
               ELSE sent
    /\ UNCHANGED <<config, peer, client, caught, wsState, listening, registered, sandboxProcess, hpc,
                   shpc, msgs, mgrVars, crpc, cpc, envVars, calls>>

\* The relay seen from the client, PTY output included.  Output changes no
\* field of the manager, so it is followed on the sessions without storage.
InitRelay == Init /\ ~config.cloudStorageEnabled

NextRelay ==
    \/ OnConnection
    \/ \E out \in IoOutcomes : AcquireReturn(out)
    \/ \E out \in IoOutcomes : BashrcReturn(out)
    \/ \E out \in IoOutcomes : PtyCreateReturn(out)
    \/ \E data \in Data : PtyOutput(data)
    \/ \E e \in Entrants, out \in IoOutcomes : CleanupPtyKillReturn(e, out)
    \/ \E e \in Entrants, out \in IoOutcomes : CleanupSandboxKillReturn(e, out)
    \/ Tick
    \/ \E tm \in timers : TimerFire(tm)
    \/ \E real \in ExitCodes : WatcherThen(real)
    \/ WatcherCatch
    \/ WsClose
    \/ \E data \in Data : InputMessage(data)
    \/ \E g \in Geometries : ResizeMessage(g)
    \/ Shutdown

SpecRelay == InitRelay /\ [][NextRelay]_vars

\* ------------------------------------------------------- browser client
\* JSON.stringify({ type: 'resize', cols, rows })
ResizeText(cols, rows) ==
    "{\"type\":\"resize\",\"cols\":" \o ToString(cols)
        \o ",\"rows\":" \o ToString(rows) \o "}"

\* WebSocketManager.send(data) on an open socket: the frame it sends is
\* JSON.stringify({ type: 'input', data })
send(data) == InputFrame(data)

\* App.handleTerminalResize(cols, rows): wsManager.send(JSON.stringify(...))
handleTerminalResize(cols, rows) == send(ResizeText(cols, rows))

\* the browser terminal's geometry changes (xterm.onResize) and the frame
\* the client sends for it arrives at the relay
BrowserResize(g) == OnMessage(handleTerminalResize(g[1], g[2]))

\* ---------------------------------------------------- relay of messages
\* A session without storage, followed through create(), the messages of
\* its client and its teardown, with more than one payload and more than
\* one geometry in the client's messages.
Payloads == {"a", "b"}
Sizes == {<<100, 40>>, <<80, 24>>}

NextMessages ==
    \/ OnConnection
    \/ \E out \in IoOutcomes : AcquireReturn(out)
    \/ \E out \in IoOutcomes : BashrcReturn(out)
    \/ \E out \in IoOutcomes : PtyCreateReturn(out)
    \/ \E data \in Payloads : InputMessage(data)
    \/ \E g \in Sizes : ResizeMessage(g)
    \/ \E frame \in IgnoredFrames : IgnoredMessage(frame)
    \/ \E g \in Sizes : BrowserResize(g)
    \/ \E e \in Entrants, out \in IoOutcomes : CleanupPtyKillReturn(e, out)
    \/ \E e \in Entrants, out \in IoOutcomes : CleanupSandboxKillReturn(e, out)
    \/ Tick
    \/ \E tm \in timers : TimerFire(tm)
    \/ \E real \in ExitCodes : WatcherThen(real)
    \/ WatcherCatch
    \/ WsClose

SpecMessages == InitRelay /\ [][NextMessages]_vars

\* The process with everything it waits for granted: while it lives, awaited
\* calls settle, the closing handshake completes, time passes and due timers
\* run their callbacks; the HTTP server finishes closing and the grace
\* period runs out.
TimersFire ==
    /\ WF_vars(~Exited /\ Tick)
    /\ WF_vars(~Exited /\ \E tm \in timers : TimerFire(tm))

FairProcess ==
    /\ InitRelay /\ [][NextProcess]_vars
    /\ WF_vars(~Exited /\ CreateReturns)
    /\ \A e \in Entrants : WF_vars(~Exited /\ CleanupReturns(e))
    /\ WF_vars(~Exited /\ wsState = "CLOSING" /\ WsClose)
    /\ WF_vars(~Exited /\ watcher = "due" /\ WatcherSettles)
    /\ TimersFire
    /\ WF_vars(ServerClosed) /\ WF_vars(ForceExit)

\* -------------------------------------------------------- two connections
\* The sandbox a manager gets from its first call: Sandbox.connect attaches
\* to the sandbox named by config.e2bSandboxId, the same for every manager of
\* the process; Sandbox.create makes a new sandbox for each call.
AcquiredId(who) ==
    IF Truthy(config.e2bSandboxId) THEN config.e2bSandboxId ELSE "sbx-" \o who

\* the id of the sandbox this.sandbox refers to
SandboxId == IF sandbox = NULL THEN NULL ELSE AcquiredId("first")

peerFrame == <<config, client, relayVars, mgrVars, crpc, caught, cpc, envVars, calls, obs>>

\* wss.on('connection') for a second client: a new SandboxManager, create()
PeerConnection ==
    /\ peer.phase = "none"
    /\ peer' = [peer EXCEPT !.phase = "acquire", !.registered = TRUE]
    /\ UNCHANGED peerFrame

\* its Sandbox.connect / Sandbox.create returns; a failure leaves nothing to
\* clean up
PeerAcquireReturn(out) ==
    /\ peer.phase = "acquire"
    /\ peer' = IF out = "ok"
               THEN [peer EXCEPT !.phase = "starting", !.sandbox = AcquiredId("second")]
               ELSE [peer EXCEPT !.phase = "failed", !.registered = FALSE]
    /\ UNCHANGED peerFrame

\* the rest of its create(): resolves with the session Ready, or a step
\* throws and the catch runs cleanup(), which destroys the sandbox it holds
PeerCreateReturn(out) ==
    /\ peer.phase = "starting"
    /\ peer' = IF out = "ok"
               THEN [peer EXCEPT !.phase = "ready"]
               ELSE [phase |-> "failed", sandbox |-> NULL, registered |-> FALSE]
    /\ UNCHANGED peerFrame

\* its teardown (kill() on close, idle timer, watcher): sandbox.kill() on the
\* sandbox it holds, this.sandbox = null
PeerTeardown ==
    /\ peer.phase = "ready"
    /\ peer' = [phase |-> "ended", sandbox |-> NULL, registered |-> FALSE]
    /\ UNCHANGED peerFrame

\* Both connections, the first one followed step by step through create()
\* and every trigger of its teardown; the traffic of its terminal, which
\* touches no sandbox reference, is left aside.
NextShared ==
    \/ OnConnection
    \/ \E out \in IoOutcomes : AcquireReturn(out)
    \/ \E out \in IoOutcomes : BashrcReturn(out)
    \/ \E out \in IoOutcomes : PtyCreateReturn(out)
    \/ \E e \in Entrants, out \in IoOutcomes : CleanupPtyKillReturn(e, out)
    \/ \E e \in Entrants, out \in IoOutcomes : CleanupSandboxKillReturn(e, out)
    \/ Tick
    \/ \E tm \in timers : TimerFire(tm)
    \/ \E real \in ExitCodes : WatcherThen(real)
    \/ WatcherCatch
    \/ WsClose
    \/ Shutdown
    \/ PeerConnection
    \/ \E out \in IoOutcomes : PeerAcquireReturn(out)
    \/ \E out \in IoOutcomes : PeerCreateReturn(out)
    \/ PeerTeardown

SpecShared == InitRelay /\ [][NextShared]_vars

\* the process, followed on the sessions without storage
SpecProcess == InitRelay /\ [][NextProcess]_vars /\ WF_vars(ForceExit)

\* ------------------------------------------- WebSocketManager (browser)
\* setState
setState(c, st) == [c EXCEPT !.state = st]

\* config.maxReconnectDelay ?? 30000
MaxDelayOf(c) ==
    IF c.maxReconnectDelay = NoTimer THEN DefaultMaxDelay ELSE c.maxReconnectDelay[1]

\* a scheduleReconnect that ignores shouldReconnect
scheduleReconnectAlways(c) ==
    [c EXCEPT
        !.rtimers = { tm \in @ : c.reconnectTimeout = NoTimer
                                 \/ tm.id # c.reconnectTimeout[1] }
                    \cup {[id |-> c.rcount + 1, delay |-> c.reconnectDelay]},
        !.reconnectTimeout = <<c.rcount + 1>>,
        !.rcount = @ + 1,
        !.delays = Append(@, c.reconnectDelay),
        !.reconnectDelay = Min(c.reconnectDelay * 2, MaxDelayOf(c))]

\* scheduleReconnect: nothing once disconnect() was called; else cancel the
\* timer whose handle is held, schedule connect() after reconnectDelay, and
\* double reconnectDelay up to the maximum
scheduleReconnect(c) ==
    IF ~c.shouldReconnect THEN c
    ELSE [c EXCEPT
            !.rtimers = { tm \in @ : c.reconnectTimeout = NoTimer
                                     \/ tm.id # c.reconnectTimeout[1] }
                        \cup {[id |-> c.rcount + 1, delay |-> c.reconnectDelay]},
            !.reconnectTimeout = <<c.rcount + 1>>,
            !.rcount = @ + 1,
            !.delays = Append(@, c.reconnectDelay),
            !.reconnectDelay = Min(c.reconnectDelay * 2, MaxDelayOf(c))]

ReadyStateOf(c) == IF c.ws = 0 THEN "none" ELSE c.socks[c.ws]

\* connect(): out is "ok" when new WebSocket(url) returns a socket, "throw"
\* when the constructor throws
connect(c, out) ==
    IF ReadyStateOf(c) = "OPEN" THEN c
    ELSE IF out = "ok"
         THEN [setState(c, "connecting") EXCEPT
                  !.socks = Append(@, "CONNECTING"),
                  !.ws = Len(c.socks) + 1]
         ELSE scheduleReconnect(setState(c, "error"))

\* ws.close(): starts the closing handshake of a socket that is not closed
CloseSocket(socks, id) ==
    IF id # 0 /\ socks[id] \in {"CONNECTING", "OPEN"}
    THEN [socks EXCEPT ![id] = "CLOSING"] ELSE socks

\* disconnect()
disconnect(c) ==
    [setState(c, "disconnected") EXCEPT
        !.shouldReconnect = FALSE,
        !.rtimers = { tm \in @ : c.reconnectTimeout = NoTimer
                                 \/ tm.id # c.reconnectTimeout[1] },
        !.reconnectTimeout = NoTimer,
        !.socks = CloseSocket(@, c.ws),
        !.ws = 0]

backendVars == <<config, relayVars, mgrVars, crpc, caught, cpc, envVars, calls, obs, peer>>

\* App.startSession: new WebSocketManager({url, ...}).connect()
ClientStart(out) ==
    /\ client.socks = <<>> /\ client.rcount = 0 /\ client.shouldReconnect
    /\ client' = connect(client, out)
    /\ UNCHANGED backendVars

\* the open event of a socket: onopen
SocketOpen(id) ==
    /\ id \in DOMAIN client.socks
    /\ client.socks[id] = "CONNECTING"
    /\ client' = [setState(client, "connected") EXCEPT
                     !.socks[id] = "OPEN",
                     !.reconnectDelay = InitialDelay,
                     !.delays = <<>>]
    /\ UNCHANGED backendVars

\* the error event of a socket whose connection failed (the browser fires
\* close after it): onerror
SocketError(id) ==
    /\ id \in DOMAIN client.socks
    /\ client.socks[id] \in {"CONNECTING", "OPEN", "CLOSING"}
    /\ client' = [setState(client, "error") EXCEPT !.socks[id] = "FAILED"]
    /\ UNCHANGED backendVars

\* the close event of a socket: onclose
SocketClose(id) ==
    /\ id \in DOMAIN client.socks
    /\ client.socks[id] # "CLOSED"
    /\ client' = scheduleReconnect(
                     [setState(client, "disconnected") EXCEPT !.socks[id] = "CLOSED"])
    /\ UNCHANGED backendVars

\* a reconnect timer runs its callback: this.connect()
ReconnectTimerFires(tm, out) ==
    /\ tm \in client.rtimers
    /\ Len(client.socks) < MaxSockets /\ client.rcount < MaxSockets
    /\ client' = connect([client EXCEPT !.rtimers = @ \ {tm}], out)
    /\ UNCHANGED backendVars

\* App unmount: wsManager.disconnect()
ClientDisconnect ==
    /\ client.shouldReconnect
    /\ client.socks # <<>> \/ client.rcount > 0
    /\ client' = disconnect(client)
    /\ UNCHANGED backendVars

\* the maxReconnectDelay options tried: not given, and two given values
MaxDelayOptions == {NoTimer, <<500>>, <<4000>>}

InitClient ==
    /\ InitServer /\ config = MkConfig("", FALSE, "r2", FALSE, "cli", R2Unset, "")
    /\ \E m \in MaxDelayOptions : client = NewManager(m)

NextClient ==
    \/ \E out \in IoOutcomes : ClientStart(out)
    \/ \E id \in 1 .. MaxSockets : SocketOpen(id)
    \/ \E id \in 1 .. MaxSockets : SocketError(id)
    \/ \E id \in 1 .. MaxSockets : SocketClose(id)
    \/ \E tm \in client.rtimers, out \in IoOutcomes : ReconnectTimerFires(tm, out)
    \/ ClientDisconnect

SpecClient == InitClient /\ [][NextClient]_vars

\* connect() is a public method: a call of it on a manager that was started,
\* at any time.  The application itself calls it once per manager.
ClientConnect(out) ==
    /\ client.socks # <<>> \/ client.rcount > 0
    /\ Len(client.socks) < MaxDirect /\ client.rcount < MaxDirect
    /\ client' = connect(client, out)
    /\ UNCHANGED backendVars

NextClientApi ==
    \/ NextClient
    \/ \E out \in IoOutcomes : ClientConnect(out)

SpecClientApi == InitClient /\ [][NextClientApi]_vars

\* ================================================================ properties
SendInputCalls == { "pty.sendInput " \o d : d \in Data }
UnmountCommands == {R2UnmountCommand, AzureUnmountCommand}
Issued(callSet) == \E c \in callSet : Count(c) > 0
IssuedNow(callSet) == \E c \in callSet : CopiesIn(c, calls') > CopiesIn(c, calls)

\* C1: for a session that reached Ready, whatever the interleaving of the
\* teardown triggers (kill() calls, the idle timer, the PTY watcher), no more
\* than one sandbox-destroy call and one pseudo-terminal-kill call are issued.
C1_SingleTeardown ==
    hpc = "ready" => Count("sandbox.kill") <= 1 /\ Count("pty.kill") <= 1

\* C2: when the connection closed while create() was in flight, the sandbox
\* that create() acquired has had kill() requested for it once create() has
\* resolved: no resolved session sits behind a closed connection without a
\* kill() from the close.
C2_CloseDuringCreateTearsDown ==
    (hpc = "ready" /\ wsState = "CLOSED" /\ shpc = "idle") => cpc["close"] # "idle"

\* C3: a write before create() resolved or after a teardown has completed
\* issues no sendInput call.
C3_NoInputOutsideLive ==
    [][ (crpc # "resolved" \/ KillCompleted) => ~IssuedNow(SendInputCalls) ]_vars

\* C4: once the teardown started by the idle timer has completed, the client
\* has been sent an exit notification that is not a process-exit notification.
ProcessExitNotices == { StatusExit(code) : code \in ExitCodes }
C4_TimeoutNotified ==
    cpc["timer"] = "done" =>
        \E i \in 1 .. Len(sent) :
            /\ sent[i].type = "status"
            /\ sent[i] \notin ({StatusInit} \cup ProcessExitNotices)

\* C5: the idle timer starts teardown only when a full timeout has passed
\* since the last input (or, with no input, since the timer was armed).
C5_NoFireBeforeDeadline ==
    [][ (cpc["timer"] = "idle" /\ cpc'["timer"] # "idle")
            => obs.idle = SandboxTimeout ]_vars

\* C5 case: an input arrived after time had passed, and later the idle timer
\* started teardown.
C5_FiredAfterExtension == obs.extended /\ cpc["timer"] # "idle"

\* C6: at most one timer is scheduled, and it is the one the manager holds
\* the handle of.
C6_AtMostOneTimer ==
    /\ Cardinality(timers) <= 1
    /\ \A tm \in timers : cleanupTimer = <<tm.id>>

\* C6 case: after two inputs the session still runs on one scheduled timer,
\* which has not yet run out.
C6_TimerAfterResets ==
    /\ Count("pty.sendInput a") = 2
    /\ \E tm \in timers : tm.left > 0

\* C7: when the sandbox destroy is requested with storage mounted, an unmount
\* command has been run against the sandbox.
C7_UnmountBeforeDestroy ==
    (isMounted /\ Count("sandbox.kill") > 0) => Issued(UnmountCommands)

\* C8: once the unmount command has been run and has settled, Mount State is
\* false, whether the command succeeded or failed.
C8_UnmountClearsMountState ==
    (Issued(UnmountCommands) /\ \A e \in Entrants : cpc[e] # "unmount")
        => ~isMounted

\* C9: when the verification probe printed NOT_MOUNTED, the mount is reported
\* failed and Mount State stays false.
C9_NotMountedFailsMount ==
    obs.probe = "NOT_MOUNTED" => (obs.mount = "failed" /\ ~isMounted)

\* C10: with a required credential field of the selected backend and auth
\* mode missing, the mount makes no call against the sandbox: no command is
\* run and no credentials or config file is written.
RequiredMissing(c) ==
    IF c.cloudStorageType = "r2"
    THEN ~Truthy(c.r2AccessKeyId) \/ ~Truthy(c.r2SecretAccessKey)
         \/ ~Truthy(c.r2Endpoint) \/ ~Truthy(c.r2Bucket)
    ELSE CASE c.azureAuthMode = "cli" -> ~Truthy(c.azureStorageAccount)
           [] c.azureAuthMode = "key" -> ~Truthy(c.azureStorageAccount)
                                         \/ ~Truthy(c.azureStorageKey)
           [] c.azureAuthMode = "sas" -> ~Truthy(c.azureStorageAccount)
                                         \/ ~Truthy(c.azureStorageSas)
C10_MissingCredentialNoRemoteCall ==
    RequiredMissing(config) => ~Issued(MountCommandCalls \cup MountFileCalls)

\* C11: every output notification sent to the client comes after a ready or
\* an error notification.
C11_ReadyBeforeOutput ==
    \A i \in 1 .. Len(sent) :
        sent[i].type = "output" =>
            \E j \in 1 .. (i - 1) : sent[j].type \in {"ready", "error"}

\* C11 case: the pseudo-terminal has emitted output and it was sent on.
C11_OutputSent == \E i \in 1 .. Len(sent) : sent[i].type = "output"

\* C12: a connection the server closed after a session ended mid-session has
\* been sent a status or error notification first, and every mid-session end
\* (process exit, watcher failure, idle timeout) leads to the connection no
\* longer being open.
MidSessionEnd == hpc = "ready" /\ (watcher = "fired" \/ cpc["timer"] # "idle")
NotifiedOfEnd ==
    \E i \in 1 .. Len(sent) :
        sent[i] \in ProcessExitNotices \/ sent[i].type = "error"
C12_EndNotifiedAndClosed ==
    /\ []((MidSessionEnd /\ wsState = "CLOSING" /\ shpc = "idle") => NotifiedOfEnd)
    /\ (MidSessionEnd ~> wsState # "OPEN")

NoticeCount(type) == Cardinality({ i \in 1 .. Len(sent) : sent[i].type = type })

\* C13 as stated: once create() has failed, exactly one error notification
\* and no ready notification have been sent, the connection is not open and
\* its state is out of the registry.
C13_FailureReportedOnce ==
    hpc = "failed" =>
        /\ NoticeCount("error") = 1
        /\ NoticeCount("ready") = 0
        /\ wsState # "OPEN"
        /\ ~registered

\* C13 amended: once create() has failed, at most one error and no ready
\* notification have been sent, the connection is not open and its state is
\* out of the registry; and a failure that finds the connection still open
\* sends the one error notification and starts closing the connection.
C13_FailureReportedIfOpen ==
    /\ [](hpc = "failed" =>
            /\ NoticeCount("error") <= 1
            /\ NoticeCount("ready") = 0
            /\ wsState # "OPEN"
            /\ ~registered)
    /\ [][ (hpc # "failed" /\ hpc' = "failed" /\ wsState = "OPEN")
              => (NoticeCount("error")' = 1 /\ wsState' = "CLOSING") ]_vars

\* C13 case: create() failed on an open connection and the error was sent.
C13_FailedAndNotified == hpc = "failed" /\ NoticeCount("error") = 1

\* C14: once create() has rejected, the cleanup() of its catch has run to
\* its end, no sandbox, pseudo-terminal or timer is held, and the error
\* reported is the one thrown by the step that failed; and the manager lets
\* go of a sandbox only after asking for its destruction.
C14_FailedCreateCleansUp ==
    /\ [](hpc = "failed" =>
            /\ cpc["create"] = "done"
            /\ sandbox = NULL /\ ptyHandle = NULL
            /\ cleanupTimer = NoTimer /\ timers = {}
            /\ caught # NULL
            /\ \A c \in CreateCall(caught) : Count(c) > 0
            /\ \A i \in 1 .. Len(sent) :
                   sent[i].type = "error" => sent[i] = ErrorMsg(caught))
    /\ [][ (sandbox # NULL /\ sandbox' = NULL) => Count("sandbox.kill") >= 1 ]_vars

\* C14 case: create() failed at its last step, with the sandbox acquired, and
\* has rejected after the sandbox was destroyed.
C14_FailedAtPtyCreate ==
    hpc = "failed" /\ caught = "ptyCreate" /\ Count("sandbox.kill") = 1

\* C15: a closed connection's state is eventually out of the registry,
\* whenever the close happened, and (short of a process shutdown) it leaves
\* the registry of a session only once the kill() of the close has completed.
RemovedAfterKill ==
    (wsState = "CLOSED" /\ ~registered /\ hpc = "ready" /\ shpc = "idle")
        => cpc["close"] = "done"
C15_ClosedConnectionRemoved ==
    /\ []RemovedAfterKill
    /\ (wsState = "CLOSED" ~> ~registered)

\* C16: the shutdown operation invokes kill() for every connection that is
\* in the registry when it runs, a connection whose create() is in flight
\* included, and at its return the registry is empty and the session it
\* killed holds no sandbox.
C16_ShutdownKillsEverySession ==
    /\ [][ (shpc = "idle" /\ shpc' # "idle" /\ registered)
              => cpc'["shutdown"] # "idle" ]_vars
    /\ [][ (shpc # "done" /\ shpc' = "done")
              => (~registered' /\ (cpc'["shutdown"] # "idle" => sandbox' = NULL)) ]_vars

\* C17: once the shutdown signal has been taken, the process eventually
\* exits, also when a session's teardown never completes.
C17_ShutdownExits == (shpc # "idle") ~> Exited

\* C18: whatever the outcome of the remote calls of a teardown, the step
\* that follows a settled call is attempted: after the PTY kill settled, the
\* unmount when storage is mounted (and unmounting is switched on) or else
\* the destruction of the sandbox; after the unmount settled, the destruction
\* of the sandbox; and once a cleanup() has returned, the timer, PTY and
\* sandbox references are cleared.
C18_TeardownTotal ==
    /\ [][ \A e \in Entrants :
             (cpc[e] = "ptyKill" /\ cpc'[e] # "ptyKill") =>
                 IF config.azureStorageEnabled /\ isMounted /\ sandbox # NULL
                 THEN IssuedNow({AzureUnmountCommand})
                 ELSE sandbox # NULL => IssuedNow({"sandbox.kill"}) ]_vars
    /\ [][ \A e \in Entrants :
             (cpc[e] = "unmount" /\ cpc'[e] # "unmount") =>
                 (sandbox # NULL => IssuedNow({"sandbox.kill"})) ]_vars
    /\ [](\A e \in Entrants :
             cpc[e] = "done" =>
                 cleanupTimer = NoTimer /\ ptyHandle = NULL /\ sandbox = NULL)

\* C18 case: a teardown of a Ready session with storage mounted has returned
\* with all three calls made and all three failed: no kill ended the shell
\* (the watcher still waits) and the unmount left the mount state set.
C18_AllThreeFailed ==
    /\ \E e \in Entrants : cpc[e] = "done"
    /\ InFlight = {}
    /\ Count("pty.kill") = 1 /\ Count(AzureUnmountCommand) = 1
    /\ Count("sandbox.kill") = 1
    /\ watcher = "armed" /\ isMounted
    /\ sandbox = NULL /\ ptyHandle = NULL

\* C19: a teardown entered after a teardown of the same session has
\* completed returns at once: it issues no PTY-kill, no unmount command and
\* no sandbox-destroy call, and leaves the manager's sandbox, PTY, timer and
\* mount state as they were.
TeardownCalls == {"pty.kill", "sandbox.kill"} \cup UnmountCommands
C19_RepeatedKillIsNoOp ==
    [][ \A e \in Entrants :
          (KillCompleted /\ cpc[e] = "idle" /\ cpc'[e] # "idle") =>
              /\ cpc'[e] = "done"
              /\ ~IssuedNow(TeardownCalls)
              /\ UNCHANGED <<sandbox, ptyHandle, cleanupTimer, isMounted>> ]_vars

\* C19 case: the teardown after the shell's exit completed with its calls
\* made, and the kill() of the connection's close has run after it: no call
\* was issued twice, as an overlapping kill() would have done.
C19_KillAfterTeardown ==
    /\ cpc["watcher"] = "done" /\ cpc["close"] = "done"
    /\ Count("pty.kill") = 1 /\ Count("sandbox.kill") = 1
    /\ \A c \in UnmountCommands : Count(c) <= 1

\* C20: no two managers hold the same sandbox at the same time, and no
\* manager's teardown destroys the sandbox that the Ready session of another
\* connection runs in.
SharedSandbox == sandbox # NULL /\ peer.sandbox = SandboxId
C20_ExclusiveSandbox ==
    /\ [] ~SharedSandbox
    /\ [][ (peer.sandbox # NULL /\ peer'.sandbox = NULL) =>
               ~(hpc = "ready" /\ sandbox # NULL /\ SandboxId = peer.sandbox) ]_vars
    /\ [][ IssuedNow({"sandbox.kill"}) =>
               ~(peer.phase = "ready" /\ peer.sandbox = SandboxId) ]_vars

\* C21: a sandbox that a create() call acquired is eventually requested to
\* be destroyed, whatever ends the session.
C21_NoSandboxLeak == (sandbox # NULL) ~> (Count("sandbox.kill") > 0)

\* C22: a message tagged input that arrives at a Ready session with no
\* teardown begun makes exactly one sendInput call, with the payload of the
\* message, and no other call.
SessionLive == hpc = "ready" /\ ~TeardownStarted
C22_InputForwardedOnce ==
    [][ \A data \in Payloads :
          (SessionLive /\ InputMessage(data)) =>
              calls' = Issue(calls, "pty.sendInput " \o data) ]_vars

\* C22 case: a live session has forwarded two inputs with different payloads.
C22_TwoPayloadsForwarded ==
    /\ SessionLive
    /\ Count("pty.sendInput a") = 1 /\ Count("pty.sendInput b") = 1

\* C23: a frame that is empty or is not a JSON object is dropped: it causes
\* no call and no change of the session, nothing is sent, the connection
\* stays as it is and the process goes on.
MalformedFrames == { frame \in IgnoredFrames : frame.text # "object" }
C23_MalformedDropped ==
    [][ \A frame \in MalformedFrames :
          IgnoredMessage(frame) =>
              /\ Dispatch(frame) \in {"return", "catch", "none"}
              /\ UNCHANGED <<calls, sent, wsState, shpc, registered, mgrVars,
                             envVars, cpc>> ]_vars

\* C23 case: an open Ready session has received messages and none of them
\* has caused a call.
C23_MessagesIgnored ==
    /\ SessionLive /\ wsState = "OPEN" /\ msgs = MaxMsgs
    /\ ~Issued({ "pty.sendInput " \o d : d \in Payloads })
    /\ ~Issued({ ResizeCall(g[1], g[2]) : g \in Sizes })

\* C24: a resize message with cols c and rows r that arrives at a live
\* session makes exactly one resize call, with (c, r), and no other call;
\* and when the connection of a Ready session then closes, the relay calls
\* kill() for it at that moment, and never a second time.
C24_ResizeThenClose ==
    /\ [][ \A g \in Sizes :
             (SessionLive /\ ResizeMessage(g)) =>
                 calls' = Issue(calls, ResizeCall(g[1], g[2])) ]_vars
    /\ [][ (hpc = "ready" /\ wsState = "OPEN" /\ wsState' = "CLOSED") =>
               cpc["close"] = "idle" /\ cpc'["close"] # "idle" ]_vars
    /\ [][ cpc["close"] # "idle" =>
               cpc'["close"] # "idle" /\ wsState' = "CLOSED" ]_vars

\* C24 case: status and ready were sent, one resize message with (100, 40)
\* arrived, the client closed, and the kill() of the close has completed
\* with no other trigger of teardown involved.
C24_ScenarioDone ==
    /\ sent = <<StatusInit, Ready>> /\ msgs = 1
    /\ Count(ResizeCall(100, 40)) = 1
    /\ wsState = "CLOSED" /\ cpc["close"] = "done"
    /\ \A e \in Entrants \ {"close"} : cpc[e] = "idle"
    /\ Count("pty.kill") = 1 /\ Count("sandbox.kill") = 1

\* C25: when wait() resolves for a process that ended with exit code c,
\* onExit is invoked with c, whatever a teardown has done by then; when
\* wait() rejects, onExit is invoked with 1.
C25_RealExitCodeReported ==
    [][ /\ \A real \in ExitCodes :
             WatcherThen(real) => obs'.exits = Append(obs.exits, real)
        /\ WatcherCatch => obs'.exits = Append(obs.exits, 1) ]_vars

\* C26: when the browser terminal's geometry changes to (cols, rows), the
\* frame that reaches a live session makes one resize call with (cols, rows)
\* and no other call: nothing is written to the pseudo-terminal's input.
C26_BrowserResizeResizes ==
    [][ \A g \in Sizes :
          (SessionLive /\ BrowserResize(g)) =>
              calls' = Issue(calls, ResizeCall(g[1], g[2])) ]_vars

\* C27: a close that was not asked for schedules a reconnect; the delays
\* scheduled since the last successful open start at 1 s and double each
\* time, up to the maximum; and no delay exceeds maxReconnectDelay.
BackoffDoubles ==
    /\ client.delays # <<>> => client.delays[1] = InitialDelay
    /\ \A i \in 1 .. (Len(client.delays) - 1) :
           client.delays[i + 1] = Min(2 * client.delays[i], MaxDelayOf(client))
CloseSchedules ==
    \A id \in 1 .. MaxSockets :
        (client.shouldReconnect /\ SocketClose(id)) =>
            \E tm \in client'.rtimers : tm \notin client.rtimers
C27_ExponentialBackoff ==
    /\ [] BackoffDoubles
    /\ [][CloseSchedules]_vars
    /\ [] (\A i \in DOMAIN client.delays : client.delays[i] <= MaxDelayOf(client))

\* C28: once disconnect() has been called no reconnect timer is pending and
\* none is scheduled, no new WebSocket is created, and when the sockets have
\* all closed the state is 'disconnected'.
AllSocketsClosed == \A id \in DOMAIN client.socks : client.socks[id] = "CLOSED"
C28_NoReconnectAfterDisconnect ==
    /\ [] (~client.shouldReconnect => client.rtimers = {})
    /\ [][ ~client.shouldReconnect =>
               /\ Len(client'.socks) = Len(client.socks)
               /\ client'.rcount = client.rcount
               /\ ~client'.shouldReconnect ]_vars
    /\ [] (~client.shouldReconnect /\ AllSocketsClosed
               => client.state = "disconnected" /\ client.ws = 0)

\* C28 case: the first socket closed, a reconnect was scheduled, and
\* disconnect() was called before the timer ran: the timer is gone and no
\* second socket exists.
C28_DisconnectedWhileWaiting ==
    /\ ~client.shouldReconnect
    /\ Len(client.socks) = 1 /\ AllSocketsClosed
    /\ client.rcount = 1 /\ client.rtimers = {}

\* C29: create() issues its calls in order: every later call only with the
\* sandbox acquired; the initialization script only when the mount that the
\* configuration selects has completed; the pseudo-terminal only after the
\* script was written and with that mount in place (the mount point is a
\* mount point, not merely reported as one); and the idle timer is armed
\* only with the pseudo-terminal created.
MountSelected == StorageStep # "bashrc"
LaterCreateCalls ==
    UNION { CreateCall(p) : p \in {"r2Write", "r2Cmd1", "r2Cmd2", "r2Cmd3",
                                   "azWhich", "azAccount", "azWrite", "azMount",
                                   "azLogs", "azVerify", "bashrc", "ptyCreate"} }
CreateOrderKept ==
    /\ IssuedNow(LaterCreateCalls) => sandbox' # NULL /\ Issued(CreateCall("acquire"))
    /\ IssuedNow(CreateCall("bashrc")) => (MountSelected => isMounted')
    /\ IssuedNow(CreateCall("ptyCreate")) =>
           Issued(CreateCall("bashrc")) /\ (MountSelected => isMounted)
    /\ (cleanupTimer = NoTimer /\ cleanupTimer' # NoTimer) => ptyHandle' # NULL
C29_CreateOrder ==
    /\ [][CreateOrderKept]_vars
    /\ [][ IssuedNow(CreateCall("ptyCreate")) => obs.probe # "NOT_MOUNTED" ]_vars

\* C30: every cleanup() cancels the idle timer on entry, requests the
\* pseudo-terminal's termination as its first call, the unmount only after
\* that and the sandbox's destruction last; and whatever the interleaving of
\* cleanup() calls, sandbox.kill is requested only with the pseudo-terminal
\* handle cleared, and, when a pseudo-terminal was created, only after a
\* pty.kill was requested and has settled.
Reaches(e, p) == cpc[e] # p /\ cpc'[e] = p
PtyKillsPending == Cardinality({ e \in Entrants : cpc[e] = "ptyKill" })
PtyKillSettled == Count("pty.kill") > PtyKillsPending
TeardownOrderKept ==
    \A e \in Entrants :
        /\ (cpc[e] = "idle" /\ cpc'[e] # "idle") => cleanupTimer' = NoTimer
        /\ Reaches(e, "ptyKill") => cpc[e] = "idle" /\ IssuedNow({"pty.kill"})
        /\ Reaches(e, "unmount") =>
               /\ cpc[e] \in {"idle", "ptyKill"}
               /\ ptyHandle' = NULL
               /\ IssuedNow(UnmountCommands)
        /\ Reaches(e, "sbKill") =>
               /\ cpc[e] \in {"idle", "ptyKill", "unmount"}
               /\ IssuedNow({"sandbox.kill"})
DestroyAfterPtyKill ==
    IssuedNow({"sandbox.kill"}) =>
        /\ ptyHandle' = NULL
        /\ ptyPid # 0 => PtyKillSettled'
C30_TeardownOrder ==
    /\ [][TeardownOrderKept]_vars
    /\ [][DestroyAfterPtyKill]_vars
\* C30 witness: a second cleanup() still waits for its pty.kill while the
\* first, whose pty.kill settled, has requested sandbox.kill.
C30_InterleavedDestroy ==
    /\ \E e \in Entrants : cpc[e] = "ptyKill"
    /\ \E e \in Entrants : cpc[e] = "sbKill"
    /\ ptyPid # 0

\* C31: in mountR2 the permission command (chmod) is issued only after the
\* credentials file was written, the mount command (s3fs) only after chmod
\* and after the mount directory was ensured (mkdir); each is issued once the
\* call before it has returned.
R2CredentialsWrite == "files.write .passwd-s3fs"
C31_R2MountOrder ==
    [][ /\ IssuedNow({R2MountCommands[2]}) =>
               /\ Count(R2CredentialsWrite) > 0
               /\ crpc \notin {"acquire", "r2Write"}
        /\ IssuedNow({R2MountCommands[3]}) =>
               /\ Count(R2MountCommands[2]) > 0
               /\ Count(R2MountCommands[1]) > 0
               /\ crpc = "r2Cmd2"
      ]_vars
\* C31 witness: the mount command of the object-storage mount was invoked.
C31_S3fsInvoked == Count(R2MountCommands[3]) > 0 /\ Count(R2CredentialsWrite) > 0

\* C32: when a command of a mount plan (mkdir, chmod, s3fs; blobfuse2 mount)
\* exits non-zero, no further mount command is issued then or later, Mount
\* State stays false, and the error thrown names the failing command and
\* carries its error output.
NonZeroExit(p) ==
    crpc = p /\ (MountR2Step("nonzero") \/ MountAzureStep("nonzero"))
PlanAborts ==
    /\ \A p \in {"r2Cmd1", "r2Cmd2", "r2Cmd3", "azMount"} :
           NonZeroExit(p) => ~isMounted' /\ ~IssuedNow(MountCommandCalls)
    /\ caught \in {"r2Cmd1", "r2Cmd2", "r2Cmd3", "azMount", "azLogs"} =>
           ~isMounted' /\ ~IssuedNow(MountCommandCalls \cup MountFileCalls)
C32_PlanAbortsOnFailure ==
    /\ [][PlanAborts]_vars
    /\ [][ \A p \in {"r2Cmd1", "r2Cmd2", "r2Cmd3", "azMount"} :
               NonZeroExit(p) => {"command", "stderr"} \subseteq FailureMessageParts(p)
         ]_vars

\* C33: in CLI auth mode the blobfuse2 config is written and the mount
\* command run only after `which az` and `az account show` both returned
\* zero; when either pre-check failed, neither is ever issued, Mount State
\* stays false and create() does not resolve.
C33_CliPrechecksGateMount ==
    /\ [][ (config.azureAuthMode = "cli"
              /\ IssuedNow({"files.write blobfuse2.yaml", AzureMountCommand})) =>
               /\ Count("which az") > 0
               /\ Count("az account show") > 0
               /\ crpc \in {"azAccount", "azWrite"}
         ]_vars
    /\ [][ \A out \in {"nonzero", "throw"} :
               (crpc \in {"azWhich", "azAccount"} /\ MountAzureStep(out)) =>
                   /\ caught' = crpc
                   /\ crpc' \in {"cleanup", "rejected"}
                   /\ ~IssuedNow(MountCommandCalls \cup MountFileCalls)
         ]_vars
    /\ [](caught \in {"azWhich", "azAccount"} =>
               /\ Count("files.write blobfuse2.yaml") = 0
               /\ Count(AzureMountCommand) = 0
               /\ ~isMounted
               /\ hpc # "ready" /\ sandboxProcess = NULL /\ ptyHandle = NULL)
\* C33 witness: the identity pre-check failed and create() was rejected.
C33_LoginCheckFailed == caught = "azAccount" /\ hpc = "failed"

\* C34: the output notifications sent are chunks the pseudo-terminal has
\* emitted, in the order it emitted them and each at most once (their
\* emission numbers increase strictly along the notifications sent), and an
\* output notification is sent only while the connection is open.
OutputsSent == SelectSeq(sent, LAMBDA m : m.type = "output")
EmissionOf(m) ==
    { k \in 1 .. obs.produced : \E data \in Data : m = Output(ChunkText(data, k)) }
C34_OutputInOrder ==
    /\ [](/\ \A i \in 1 .. Len(OutputsSent) : EmissionOf(OutputsSent[i]) # {}
          /\ \A i, j \in 1 .. Len(OutputsSent) :
                 i < j => \A k \in EmissionOf(OutputsSent[i]),
                             l \in EmissionOf(OutputsSent[j]) : k < l)
    /\ [][ Len(OutputsSent') > Len(OutputsSent) =>
               wsState = "OPEN" /\ wsState' = "OPEN" ]_vars
\* C34 witness: a chunk was sent on, the next one was emitted after the
\* connection had left the open state, and the session went on.
C34_ChunkSentAndChunkDropped ==
    /\ Len(OutputsSent) = 1
    /\ obs.produced = 2
    /\ wsState # "OPEN"

\* C35: onExit is invoked at most once in a session, whatever the
\* interleaving of process exit, watcher failure, kill() and the idle timer;
\* so at most one exit status notification is sent, and the exit path sends
\* and closes only on an open connection.
ExitStatusesSent ==
    SelectSeq(sent, LAMBDA m : \E code \in ExitCodes : m = StatusExit(code))
C35_ExitReportedOnce ==
    /\ [](Len(obs.exits) <= 1 /\ Len(ExitStatusesSent) <= 1)
    /\ [][ Len(obs.exits') > Len(obs.exits) =>
               /\ obs.exits = <<>>
               /\ watcher' = "fired"
               /\ Len(ExitStatusesSent') > Len(ExitStatusesSent) =>
                      wsState = "OPEN" /\ wsState' = "CLOSING"
         ]_vars
\* C35 witness: the idle timer fired, its kill ended the process, and the
\* watcher then invoked onExit while the connection was still open.
C35_ExitAfterTimeout ==
    /\ Len(obs.exits) = 1
    /\ cpc["timer"] # "idle"
    /\ Len(ExitStatusesSent) = 1

\* C36: once a cleanup() of the manager has begun, no idle timer is armed
\* and none is scheduled, also when write() runs during or after it.
C36_NoTimerAfterTeardown ==
    TeardownStarted => cleanupTimer = NoTimer /\ timers = {}
\* C36 witness: write() ran after a cleanup() had begun.
C36_WriteDuringTeardown == obs.late /\ TeardownStarted

\* C37: Mount State is true only while a sandbox is held and only when the
\* mount operation completed on it, every command having exited zero and the
\* verification probe not having reported the mount point as not mounted.
C37_MountStateSound ==
    isMounted => /\ sandbox # NULL
                 /\ obs.mount = "ok"
                 /\ obs.probe # "NOT_MOUNTED"

\* C38: a connection whose manager holds a sandbox is in the registry; this
\* for the connection followed step by step and for the second one, which
\* may be accepted while the shutdown operation awaits its kill() calls.
C38_LiveSandboxRegistered ==
    /\ sandbox # NULL => registered
    /\ peer.sandbox # NULL => peer.registered

\* C39: when create() starts the pseudo-terminal, the directory the
\* initialization script changes to equals the directory given to the
\* pseudo-terminal, both are the storage mount point exactly when Mount State
\* is true, and the banner says storage is mounted only when it is.
WorkingDirectoriesAgree(c, mounted) ==
    /\ ScriptCwd(c) = PtyCwd(c)
    /\ (ScriptCwd(c) = MountPoint) <=> mounted
    /\ (PtyCwd(c) = MountPoint) <=> mounted
    /\ StorageMessage(c) # "Note: Cloud storage disabled - files will not persist"
           => mounted
C39_WorkingDirectoryConsistent ==
    [][ IssuedNow(CreateCall("ptyCreate")) =>
            WorkingDirectoriesAgree(config, isMounted) ]_vars

\* C40: the WebSocketManager has at most one reconnect timer pending and at
\* most one socket that is connecting or open.
C40_OneTimerOneSocket ==
    /\ Cardinality(client.rtimers) <= 1
    /\ Cardinality({ id \in DOMAIN client.socks :
                       client.socks[id] \in {"CONNECTING", "OPEN"} }) <= 1
====
